---- MODULE Spec2Model ----
(***************************************************************************)
(* Grainy.ai: the grain renderer (components/GrainCanvas.tsx), the App     *)
(* that owns the settings record, and the recipe service.                  *)
(*                                                                         *)
(* Units.  A dimension (width, height) and the grain scale are carried in  *)
(* tenths (1 px = 10), so that a fractional input such as 2.5 is a value   *)
(* of the model.  intensity, roughness, opacity and randomness are carried *)
(* in hundredths (0.15 = 15).  A float computed by the renderer is carried *)
(* in fixed point with FP units to 1.0; a PRNG draw keeps the top twelve  *)
(* bits of its 32-bit output.                                              *)
(***************************************************************************)
EXTENDS Integers, Sequences, FiniteSets, TLC

----------------------------------------------------------------------------
(* 32-bit words.  TLC integers are 32-bit signed, so an unsigned 32-bit    *)
(* word is the pair <<hi, lo>> of its 16-bit halves.                       *)

HALF == 65536

BYTE == 256

RECURSIVE XorBits(_, _)
XorBits(a, b) ==
    IF a = 0 THEN b
    ELSE IF b = 0 THEN a
    ELSE ((a + b) % 2) + 2 * XorBits(a \div 2, b \div 2)

RECURSIVE OrBits(_, _)
OrBits(a, b) ==
    IF a = 0 THEN b
    ELSE IF b = 0 THEN a
    ELSE (IF a % 2 = 1 \/ b % 2 = 1 THEN 1 ELSE 0) + 2 * OrBits(a \div 2, b \div 2)

\* the two operations on hex digits, tabulated
XorDigit == [a \in 0..15 |-> [b \in 0..15 |-> XorBits(a, b)]]

OrDigit == [a \in 0..15 |-> [b \in 0..15 |-> OrBits(a, b)]]

\* a ^ b and a | b on 16-bit halves, digit by digit
Xor16(a, b) ==
    XorDigit[a % 16][b % 16]
    + 16 * XorDigit[(a \div 16) % 16][(b \div 16) % 16]
    + 256 * XorDigit[(a \div 256) % 16][(b \div 256) % 16]
    + 4096 * XorDigit[a \div 4096][b \div 4096]

Or16(a, b) ==
    OrDigit[a % 16][b % 16]
    + 16 * OrDigit[(a \div 16) % 16][(b \div 16) % 16]
    + 256 * OrDigit[(a \div 256) % 16][(b \div 256) % 16]
    + 4096 * OrDigit[a \div 4096][b \div 4096]

RECURSIVE Pow2(_)
Pow2(n) == IF n = 0 THEN 1 ELSE 2 * Pow2(n - 1)

\* a ^ b on 32-bit words
Xor32(a, b) == <<Xor16(a[1], b[1]), Xor16(a[2], b[2])>>

\* a | k for a small constant k (k < 2^16)
OrLow(a, k) == <<a[1], Or16(a[2], k)>>

\* a >>> n for 0 < n < 16
Shr32(a, n) ==
    <<a[1] \div Pow2(n), (a[1] % Pow2(n)) * Pow2(16 - n) + a[2] \div Pow2(n)>>

\* (a + b) mod 2^32
Add32(a, b) ==
    LET lo == a[2] + b[2]
    IN  <<(a[1] + b[1] + lo \div HALF) % HALF, lo % HALF>>

\* low 16 bits of x * y, for x, y < 2^16
MulLow16(x, y) ==
    ((x % BYTE) * y + (((x \div BYTE) * (y % BYTE)) % BYTE) * BYTE) % HALF

\* the full 32-bit product of two 16-bit halves, as a word
Mul16(x, y) ==
    LET x0 == x % BYTE
        x1 == x \div BYTE
        y0 == y % BYTE
        y1 == y \div BYTE
        p0 == x0 * y0
        p1 == x0 * y1 + x1 * y0
        p2 == x1 * y1
        lo == p0 + (p1 % BYTE) * BYTE
    IN  <<(p2 + p1 \div BYTE + lo \div HALF) % HALF, lo % HALF>>

\* Math.imul(a, b): the low 32 bits of the product
Imul(a, b) ==
    LET ll == Mul16(a[2], b[2])
    IN  <<(ll[1] + MulLow16(a[1], b[2]) + MulLow16(a[2], b[1])) % HALF, ll[2]>>

\* the increment 0x6D2B79F5 of the generator, as a word
MulberryStep == <<27947, 31221>>

\* ToInt32/ToUint32 of a non-negative integer seed below 2^31
WordOf(n) == <<n \div HALF, n % HALF>>

\* the Number a bitwise operator returns for the bits w: an int32, the upper
\* half signed
Int32(w) == <<IF w[1] >= HALF \div 2 THEN w[1] - HALF ELSE w[1], w[2]>>

\* x >>> 0: the uint32 of the same bits
Uint32(x) == <<x[1] % HALF, x[2]>>

\* line 17 without its >>> 0
MulberryOutputSigned(s, t) == [state |-> s, out |-> Int32(Xor32(t, Shr32(t, 14)))]

\* line 17 for the state s and the t line 16 left: the new state and the
\* 32-bit output (t ^ (t >>> 14)) >>> 0
MulberryOutput(s, t) == [state |-> s, out |-> Uint32(Int32(Xor32(t, Shr32(t, 14))))]

\* line 16 for the t line 15 left: t ^= t + Math.imul(t ^ (t >>> 7), t | 61)
MulberryMix(s, t) ==
    MulberryOutput(s, Xor32(t, Add32(t, Imul(Xor32(t, Shr32(t, 7)), OrLow(t, 61)))))

\* line 15 for the t line 14 left: t = Math.imul(t ^ (t >>> 15), t | 1)
MulberryScramble(t) == MulberryMix(t, Imul(Xor32(t, Shr32(t, 15)), OrLow(t, 1)))

\* The variable s of the closure is a Number, a double: an integer of up to
\* 64 bits here, four 16-bit limbs, the most significant first.
Wide(w) == <<0, 0, w[1], w[2]>>

\* ToInt32 and ToUint32 of a Number keep its low 32 bits
Low32(x) == <<x[3], x[4]>>

\* the exact sum of two such integers
WideAdd(a, b) ==
    LET l0 == a[4] + b[4]
        l1 == a[3] + b[3] + l0 \div HALF
        l2 == a[2] + b[2] + l1 \div HALF
    IN  <<a[1] + b[1] + l2 \div HALF, l2 % HALF, l1 % HALF, l0 % HALF>>

\* the double nearest to an integer below 2^54: below 2^53 (32 in the top
\* limb) the integer itself, from there the nearest even one, a tie going to
\* the even mantissa, which is the multiple of 4
ToDouble(x) ==
    IF x[1] < 32 \/ x[4] % 2 = 0 THEN x
    ELSE IF x[4] % 4 = 1 THEN <<x[1], x[2], x[3], x[4] - 1>>
    ELSE WideAdd(x, Wide(<<0, 1>>))

\* s += 0x6d2b79f5, line 14: a double addition, never wrapped to 32 bits
StateAdd(s) == ToDouble(WideAdd(s, Wide(MulberryStep)))

\* k times the integer x, exactly
RECURSIVE Times(_, _)
Times(k, x) ==
    IF k = 0 THEN Wide(<<0, 0>>)
    ELSE WideAdd(IF k % 2 = 1 THEN x ELSE Wide(<<0, 0>>),
                 Times(k \div 2, WideAdd(x, x)))

\* s after k calls from the seed, while every sum stays below 2^53
StateAfter(seed, k) == WideAdd(Wide(WordOf(seed)), Times(k, Wide(MulberryStep)))

\* lines 15-17 for the s line 14 left: every bitwise operator and Math.imul
\* take the low 32 bits of t
MulberryCall(s) == [state |-> s, out |-> MulberryScramble(Low32(s)).out]

\* one call of the closure createRandom returns, from state s
MulberryNext(s) == MulberryCall(StateAdd(s))

----------------------------------------------------------------------------
(* Numbers of the renderer.                                                *)

\* fixed point: FP units to 1.0; a draw keeps the top 12 bits of its output
FP == 4096

\* one pixel, in the tenths a dimension is carried in
PX == 10

Max(a, b) == IF a >= b THEN a ELSE b

Min(a, b) == IF a <= b THEN a ELSE b

\* Math.ceil(a / b) for b > 0
CeilDiv(a, b) == -((-a) \div b)

\* a / b rounded to the nearest integer, ties to even (b > 0): the
\* conversion a Uint8ClampedArray applies to the number stored in it
RoundHalfEven(a, b) ==
    LET q == a \div b
        r == a % b
    IN  IF 2 * r < b THEN q
        ELSE IF 2 * r > b THEN q + 1
        ELSE IF q % 2 = 0 THEN q ELSE q + 1

\* the byte a Uint8ClampedArray keeps for the number a / b
ToUint8Clamp(a, b) == Max(0, Min(255, RoundHalfEven(a, b)))

\* const clutterScale = 50
clutterScale == 50

\* the float rng() returns for a 32-bit output, in fixed point
DrawFP(w) == w[1] \div (HALF \div FP)

----------------------------------------------------------------------------
(* types.ts                                                                *)

MAX_DIMENSION == 5000

MIN_DIMENSION == 1

SAFE_PIXELS == 25000000

MAX_PPI == 600

MAX_SCALE == 20

GrainTexture == {"UNIFORM", "GAUSSIAN", "SPECKLE", "FILM"}

\* A colour string "#RRGGBB" is the sequence of its six characters after
\* the '#', each a hex digit 0..15, or 16 for a character that is none.
BadDigit == 16

WHITE == <<15, 15, 15, 15, 15, 15>>

BLACK == <<0, 0, 0, 0, 0, 0>>

\* parseInt(color.slice(i, i + 2), 16) || 0, i counted after the '#'
HexByte(color, i) ==
    IF i > Len(color) \/ color[i] = BadDigit THEN 0
    ELSE IF i + 1 > Len(color) \/ color[i + 1] = BadDigit THEN color[i]
    ELSE 16 * color[i] + color[i + 1]

\* the r, g, b of grainColor (gR, gG, gB)
GrainRGB(color) == <<HexByte(color, 1), HexByte(color, 3), HexByte(color, 5)>>

\* ctx.fillStyle = bgColor: a string that is no colour is ignored and the
\* style the resized canvas starts with, opaque black, stays
FillRGB(color) ==
    IF Len(color) = 6 /\ \A i \in 1..6 : color[i] # BadDigit
    THEN GrainRGB(color)
    ELSE <<0, 0, 0>>

----------------------------------------------------------------------------
(* Bounds of the model.                                                    *)

\* the callback is followed for renders of at most this many noise cells
MaxCells == 51

\* ... and at most this many output pixels
MaxPixels == 51

\* recipe requests in flight at once
MaxRequests == 2

----------------------------------------------------------------------------
(* The random stream of one render.  In components/GrainCanvas.tsx it is   *)
(* the closure createRandom(seed) returns; in the other GrainCanvas of the *)
(* repository (unnamed/part_001) every draw is Math.random(), here a value *)
(* of the sequence `math` the platform hands out (read round-robin).       *)

\* the seeds the renders of the model are given
Seeds == {1, 373, 12345}

\* the draws one render of the model takes at most: the clumping map and
\* six draws a noise cell (up to three for the noise, three for the colour)
MaxDraws ==
    (CeilDiv(MaxCells, clutterScale) + 2) * (CeilDiv(MaxCells, clutterScale) + 2)
    + 6 * MaxCells

\* the calls of one closure, tabulated: the state each leaves and the
\* float it returns, for the k > 0 calls after state s, the first half of
\* them (done) before the second
RECURSIVE Calls(_, _)
CallsNext(m) == <<[s |-> m.state, v |-> DrawFP(m.out)]>>

CallsAfter(done, k) == done \o Calls(done[Len(done)].s, k)

Calls(s, k) ==
    IF k = 1 THEN CallsNext(MulberryNext(s))
    ELSE CallsAfter(Calls(s, k \div 2), k - k \div 2)

Streams == [seed \in Seeds |-> Calls(Wide(WordOf(seed)), MaxDraws)]

\* const rng = createRandom(seed): s starts as the seed, no draw taken
createRandom(seed) ==
    [kind |-> "seeded", seed |-> seed, s |-> Wide(WordOf(seed)), n |-> 0, v |-> 0,
     math |-> <<>>]

\* the stream of a render that calls Math.random()
MathRandom(vals) ==
    [kind |-> "math", seed |-> 0, s |-> Wide(<<0, 0>>), n |-> 0, v |-> 0, math |-> vals]

\* the stream after a call that left state call.s and returned call.v
Drawn(rng, call) == [rng EXCEPT !.s = call.s, !.n = rng.n + 1, !.v = call.v]

\* rng(): the stream after the call; v is the float the call returned, in
\* [0, 1) in fixed point, and n the number of calls so far
Draw(rng) ==
    IF rng.kind = "seeded"
    THEN Drawn(rng, Streams[rng.seed][rng.n + 1])
    ELSE Drawn(rng, [s |-> rng.s, v |-> rng.math[(rng.n % Len(rng.math)) + 1]])

----------------------------------------------------------------------------
(* The noise model: lines 104-123 of the render loop.                      *)

\* Math.sqrt(-2.0 * Math.log(u)) in thousandths, by the number of leading
\* zero bits of u (u in (0, 1]; entry 1 is u = 1)
BoxMullerRadius ==
    <<0, 759, 1401, 1830, 2176, 2474, 2740, 2982, 3206, 3416, 3613, 3800, 3978>>

\* Math.cos(2.0 * Math.PI * v) in thousandths, by the sixteenth v falls in
BoxMullerCos ==
    <<981, 831, 556, 195, -195, -556, -831, -981,
      -981, -831, -556, -195, 195, 556, 831, 981>>

\* the number of leading zero bits of u, 0 < u <= FP (0 for u = FP)
RECURSIVE LeadingZeros(_)
LeadingZeros(u) == IF u >= FP THEN 0 ELSE 1 + LeadingZeros(2 * u)

\* (sqrt(-2 ln u) * cos(2 pi v) + 3) / 6, u and v in fixed point
GaussianNoise(u, v) ==
    LET radius == BoxMullerRadius[LeadingZeros(u) + 1]
        cosine == BoxMullerCos[(((v * 16) \div FP) % 16) + 1]
        raw    == (((radius * cosine) \div 1000) * FP) \div 1000
    IN  (raw + 3 * FP) \div 6

\* rng() > (1 - intensity * 0.8), r the draw, intensity in hundredths
SpecklePasses(r, intensity) == r * 125 > (125 - intensity) * FP

\* default: noise = rng(), g the stream after the call
Uniform(g) == [noise |-> g.v, rng |-> g]

\* case GAUSSIAN, g1 and g2 the streams after the calls for u and v
Gaussian(g1, g2) == [noise |-> GaussianNoise(FP - g1.v, FP - g2.v), rng |-> g2]

\* both operands of the conditional evaluated
SpeckleBothDrawn(intensity, g1) ==
    IF SpecklePasses(g1.v, intensity)
    THEN Uniform(Draw(g1))
    ELSE [noise |-> FP \div 2, rng |-> Draw(g1)]

\* case SPECKLE: rng() > (1 - intensity * 0.8) ? rng() : 0.5
Speckle(intensity, g1) ==
    IF SpecklePasses(g1.v, intensity)
    THEN Uniform(Draw(g1))
    ELSE [noise |-> FP \div 2, rng |-> g1]

\* case FILM: (rng() + rng() + rng()) / 3
Film(g1, g2, g3) == [noise |-> (g1.v + g2.v + g3.v) \div 3, rng |-> g3]

FilmThird(g1, g2) == Film(g1, g2, Draw(g2))

\* the cases, g1 the stream after the first call of rng() each of them makes
Switch(texture, intensity, g1) ==
    CASE texture = "GAUSSIAN" -> Gaussian(g1, Draw(g1))
      [] texture = "SPECKLE" -> Speckle(intensity, g1)
      [] texture = "FILM" -> FilmThird(g1, Draw(g1))
      [] OTHER -> Uniform(g1)

\* the switch on texture: the noise of one cell and the stream after it
Sample(texture, intensity, rng) == Switch(texture, intensity, Draw(rng))

----------------------------------------------------------------------------
(* The clumping map: lines 52-88 and 127-151.                              *)

\* the k bytes of the low-resolution map, one draw each, row by row, and
\* the stream after them
RECURSIVE ClutterGrid(_, _, _)

\* one draw filling two bytes of the map
ClutterByteTwice(g, k, grid) ==
    ClutterGrid(g, Max(0, k - 2),
                grid \o <<ToUint8Clamp(g.v * 255, FP), ToUint8Clamp(g.v * 255, FP)>>)

ClutterByte(g, k, grid) ==
    ClutterGrid(g, k - 1, Append(grid, ToUint8Clamp(g.v * 255, FP)))

ClutterGrid(rng, k, grid) ==
    IF k = 0 THEN [grid |-> grid, rng |-> rng] ELSE ClutterByte(Draw(rng), k, grid)

\* sCtx.drawImage(clutterCanvas, 0, 0, noiseW, noiseH) with smoothing on:
\* the byte of noise cell (x, y), interpolated between the four map cells
\* around the point its centre falls on
SmoothAt(grid, cW, cH, noiseW, noiseH, x, y) ==
    LET dx == 2 * noiseW
        dy == 2 * noiseH
        sx == Max(0, Min((cW - 1) * dx, (2 * x + 1) * cW - noiseW))
        sy == Max(0, Min((cH - 1) * dy, (2 * y + 1) * cH - noiseH))
        x0 == sx \div dx
        y0 == sy \div dy
        x1 == Min(cW - 1, x0 + 1)
        y1 == Min(cH - 1, y0 + 1)
        fx == sx % dx
        fy == sy % dy
        at(cx, cy) == grid[cy * cW + cx + 1]
    IN  RoundHalfEven((dx - fx) * (dy - fy) * at(x0, y0) + fx * (dy - fy) * at(x1, y0)
                       + (dx - fx) * fy * at(x0, y1) + fx * fy * at(x1, y1),
                      dx * dy)

\* clutterData, one byte a noise cell (its red channel), row by row
Smooth(grid, cW, cH, noiseW, noiseH) ==
    [i \in 1..(noiseW * noiseH) |->
        SmoothAt(grid, cW, cH, noiseW, noiseH, (i - 1) % noiseW, (i - 1) \div noiseW)]

\* the map built for every non-zero randomness
ClumpedAboveZero(randomness) == randomness > 0

\* if (randomness > 0.05): the clumping map is built
Clumped(randomness) == randomness > 5

\* the mask without `if (mask < 0) mask = 0`
MaskNoFloor(m, randomness) ==
    LET num == 125 * m - 255 * randomness
        den == 255 * (125 - randomness)
    IN  IF den = 0
        THEN [nan |-> num = 0, v |-> IF num > 0 THEN FP ELSE 0]
        ELSE [nan |-> FALSE, v |-> Min(FP, (num * FP) \div den)]

\* let mask = (mapVal - threshold) / (1 - threshold), clamped to [0, 1]:
\* mapVal = m / 255 and threshold = randomness * 0.8, so the quotient is
\* (125 m - 255 randomness) / (255 (125 - randomness)); a zero divisor
\* gives Infinity, -Infinity or NaN as the dividend is positive, negative
\* or zero, and NaN passes both comparisons unchanged
Mask(m, randomness) ==
    LET num == 125 * m - 255 * randomness
        den == 255 * (125 - randomness)
    IN  IF den = 0
        THEN [nan |-> num = 0, v |-> IF num > 0 THEN FP ELSE 0]
        ELSE [nan |-> FALSE,
              v   |-> IF den > 0
                      THEN Max(0, Min(FP, (num * FP) \div den))
                      ELSE Max(0, Min(FP, ((-num) * FP) \div (-den)))]

\* mask * 0.8 + 0.2, in units of 1 / (5 FP)
Multiplier(mask) == 4 * mask + FP

\* effect *= (mask * 0.8 + 0.2): effect * Multiplier / (5 FP) rounded down,
\* the quotient and the remainder of effect multiplied apart so that no
\* product leaves the range of the integers
Suppress(effect, mask) ==
    LET b == Multiplier(mask) \div 4
        c == (5 * FP) \div 4
    IN  (effect \div c) * b + ((effect % c) * b) \div c

----------------------------------------------------------------------------
(* The render loop over the noise cells: lines 103-164.                    *)

\* the effect with the intensity added to the noise
NoiseEffectSum(noise, intensity) == 100 * noise + intensity * FP

\* the effect of the noise clamped to [0, 1]
NoiseEffectClamped(noise, intensity) == Max(0, Min(FP, noise)) * intensity

\* let effect = noise * intensity, in units of 1 / (100 FP)
NoiseEffect(noise, intensity) == noise * intensity

\* the byte stored for effect * 255
AlphaByte(effect) == ToUint8Clamp(effect * 255, 100 * FP)

\* rng() * 255 stored in the image data
ColourByte(r) == ToUint8Clamp(r * 255, FP)

\* the mask of a cell whose clutter byte is m (-1 when clutterData is null)
CellMask(m, randomness) ==
    IF m < 0 THEN [nan |-> FALSE, v |-> FP] ELSE Mask(m, randomness)

\* the effect of a cell after the mask block
CellEffect(noise, intensity, m, mask) ==
    IF m < 0 THEN NoiseEffect(noise, intensity)
    ELSE Suppress(NoiseEffect(noise, intensity), mask)

\* lines 153-163: the cell written, for the noise sampled, the mask, the
\* colour bytes and the stream after the colour draws
Written(st, m, first, smp, mask, rgb, rng) ==
    [cell |-> [first  |-> first,
               tdraws |-> smp.rng.n - first + 1,
               cdraws |-> rng.n - smp.rng.n,
               noise  |-> smp.noise,
               pre    |-> NoiseEffect(smp.noise, st.intensity),
               m      |-> m,
               mask   |-> mask.v,
               nan    |-> mask.nan,
               effect |-> CellEffect(smp.noise, st.intensity, m, mask.v),
               rgb    |-> rgb,
               alpha  |-> IF mask.nan THEN 0
                          ELSE AlphaByte(CellEffect(smp.noise, st.intensity, m, mask.v))],
     rng  |-> rng]

\* the colour draws stored blue first
ColourThirdReversed(st, m, first, smp, mask, g1, g2, g3) ==
    Written(st, m, first, smp, mask,
            <<ColourByte(g3.v), ColourByte(g2.v), ColourByte(g1.v)>>, g3)

\* the three colour draws of a cell that is not monochrome
ColourThird(st, m, first, smp, mask, g1, g2, g3) ==
    Written(st, m, first, smp, mask,
            <<ColourByte(g1.v), ColourByte(g2.v), ColourByte(g3.v)>>, g3)

ColourSecond(st, m, first, smp, mask, g1, g2) ==
    ColourThird(st, m, first, smp, mask, g1, g2, Draw(g2))

ColourFirst(st, m, first, smp, mask, g1) ==
    ColourSecond(st, m, first, smp, mask, g1, Draw(g1))

\* the rest of the loop body after the switch left the sample smp
Sampled(st, m, first, smp) ==
    IF st.monochrome
    THEN Written(st, m, first, smp, CellMask(m, st.randomness),
                 GrainRGB(st.grainColor), smp.rng)
    ELSE ColourFirst(st, m, first, smp, CellMask(m, st.randomness), Draw(smp.rng))

\* one pass of the loop body for the cell whose clutter byte is m (-1 when
\* clutterData is null): the cell written and the stream after it
Cell(st, m, rng) == Sampled(st, m, rng.n + 1, Sample(st.texture, st.intensity, rng))

\* for (let i = 0; i < data.length; i += 4): cells k..n in order
RECURSIVE Cells(_, _, _, _, _)
CellsAfter(st, clutter, c, k, n) == <<c.cell>> \o Cells(st, clutter, c.rng, k + 1, n)

Cells(st, clutter, rng, k, n) ==
    IF k > n THEN <<>>
    ELSE CellsAfter(st, clutter, Cell(st, IF clutter = <<>> THEN -1 ELSE clutter[k], rng),
                    k, n)

----------------------------------------------------------------------------
(* Composite and blur: lines 166-178.                                      *)

\* canvas.width = finalWidth: the integer part (dimensions are >= 0 here)
CanvasDim(v) == v \div PX

\* ctx.globalAlpha = settings.opacity: a value outside [0, 1] is ignored
\* and the alpha of the fresh context, 1, stays
GlobalAlpha(opacity) == IF opacity >= 0 /\ opacity <= 100 THEN opacity ELSE 100

\* one channel of a noise pixel drawn over the background
Blend(bg, c, alpha, opacity) ==
    RoundHalfEven(bg * (25500 - alpha * GlobalAlpha(opacity))
                   + c * alpha * GlobalAlpha(opacity), 25500)

\* the cell under the right edge of the pixel instead of its centre
SourceCellEdge(x, n, final) == Min(n - 1, ((x + 1) * n * PX) \div final)

\* drawImage(offscreen, 0, 0, finalWidth, finalHeight) with smoothing off:
\* the noise cell the centre of output pixel x falls in, along one axis of
\* noise resolution n stretched over final (tenths)
SourceCell(x, n, final) == ((2 * x + 1) * n * PX) \div (2 * final)

\* the output pixels after the composite, row by row
Composite(st, cells, noiseW, noiseH, fw, fh) ==
    LET bg == FillRGB(st.bgColor)
        w  == CanvasDim(fw)
    IN  [i \in 1..(w * CanvasDim(fh)) |->
            LET c == cells[SourceCell((i - 1) \div w, noiseH, fh) * noiseW
                           + SourceCell((i - 1) % w, noiseW, fw) + 1]
            IN  [k \in 1..3 |-> Blend(bg[k], c.rgb[k], c.alpha, st.opacity)]]

\* the pixels blur(roughness * 10 px) reaches from a pixel, in pixels
BlurReach(roughness) == CeilDiv(roughness, 10)

RECURSIVE SumOver(_, _, _)
SumOver(px, S, k) ==
    IF S = {} THEN 0
    ELSE LET i == CHOOSE j \in S : TRUE
         IN  px[i][k] + SumOver(px, S \ {i}, k)

\* ctx.filter = blur(..); ctx.drawImage(canvas, 0, 0): every pixel becomes
\* the mean of the pixels within reach of it
Blur(px, w, reach) ==
    [i \in 1..Len(px) |->
        LET near == {j \in 1..Len(px) :
                       /\ ((j - 1) % w) - ((i - 1) % w) \in (-reach)..reach
                       /\ ((j - 1) \div w) - ((i - 1) \div w) \in (-reach)..reach}
        IN  [k \in 1..3 |-> RoundHalfEven(SumOver(px, near, k), Cardinality(near))]]

----------------------------------------------------------------------------
(* The callback of requestAnimationFrame: lines 42-182.                    *)

\* the steps a run of the callback took
Steps(masked, threw, blurred) ==
    <<"fill">>
    \o (IF masked THEN <<"mask">> ELSE <<>>)
    \o (IF threw THEN <<"throw">> ELSE <<"noise", "composite">>)
    \o (IF blurred THEN <<"blur">> ELSE <<>>)
    \o (IF threw THEN <<>> ELSE <<"notify">>)

\* createImageData or getImageData threw IndexSizeError for a zero width
\* or height: the callback ends where it stands, the fill on the canvas
Thrown(st, fw, fh, noiseW, noiseH, maskDraws) ==
    [st        |-> st,
     threw     |-> TRUE,
     noiseW    |-> noiseW,
     noiseH    |-> noiseH,
     maskDraws |-> maskDraws,
     clutter   |-> <<>>,
     cells     |-> <<>>,
     blurred   |-> FALSE,
     steps     |-> Steps(maskDraws > 0, TRUE, FALSE),
     px        |-> [i \in 1..(CanvasDim(fw) * CanvasDim(fh)) |-> FillRGB(st.bgColor)]]

\* a blur for every roughness above zero
BlurGateAboveZero(roughness) == roughness > 0

\* if (roughness > 0.01)
BlurGate(roughness) == roughness > 1

\* lines 174-180: the blur if (roughness > 0.01), then onCanvasReady
Finished(st, fw, noiseW, noiseH, maskDraws, clutter, cells, drawn) ==
    [st        |-> st,
     threw     |-> FALSE,
     noiseW    |-> noiseW,
     noiseH    |-> noiseH,
     maskDraws |-> maskDraws,
     clutter   |-> clutter,
     cells     |-> cells,
     blurred   |-> BlurGate(st.roughness),
     steps     |-> Steps(maskDraws > 0, FALSE, BlurGate(st.roughness)),
     px        |-> IF BlurGate(st.roughness)
                   THEN Blur(drawn, CanvasDim(fw), BlurReach(st.roughness))
                   ELSE drawn]

\* lines 166-172: the cells put on the offscreen canvas and composited
Noised(st, fw, fh, noiseW, noiseH, maskDraws, clutter, cells) ==
    Finished(st, fw, noiseW, noiseH, maskDraws, clutter, cells,
             Composite(st, cells, noiseW, noiseH, fw, fh))

\* lines 90-164: the noise loop, given clutterData and the stream left
Prepared(st, fw, fh, noiseW, noiseH, maskDraws, clutter, rng) ==
    Noised(st, fw, fh, noiseW, noiseH, maskDraws, clutter,
           Cells(st, clutter, rng, 1, noiseW * noiseH))

\* lines 76-86: the map scaled to the noise resolution
Mapped(st, fw, fh, noiseW, noiseH, cW, cH, map) ==
    IF noiseW = 0 \/ noiseH = 0
    THEN Thrown(st, fw, fh, noiseW, noiseH, cW * cH)
    ELSE Prepared(st, fw, fh, noiseW, noiseH, cW * cH,
                  Smooth(map.grid, cW, cH, noiseW, noiseH), map.rng)

\* lines 52-88, for the noise resolution lines 48-50 computed
Sized(st, fw, fh, rng, noiseW, noiseH, cW, cH) ==
    IF Clumped(st.randomness)
    THEN Mapped(st, fw, fh, noiseW, noiseH, cW, cH, ClutterGrid(rng, cW * cH, <<>>))
    ELSE IF noiseW = 0 \/ noiseH = 0
    THEN Thrown(st, fw, fh, noiseW, noiseH, 0)
    ELSE Prepared(st, fw, fh, noiseW, noiseH, 0, <<>>, rng)

\* what one run of the callback does for the settings st the effect
\* captured, with finalWidth fw and finalHeight fh (tenths), drawing from
\* the stream rng
Render(st, fw, fh, rng) ==
    Sized(st, fw, fh, rng,
          CeilDiv(fw, Max(PX, st.scale)), CeilDiv(fh, Max(PX, st.scale)),
          CeilDiv(CeilDiv(fw, Max(PX, st.scale)), clutterScale) + 2,
          CeilDiv(CeilDiv(fh, Max(PX, st.scale)), clutterScale) + 2)

\* the number of noise cells the callback writes for st
NoiseCells(st, fw, fh) ==
    CeilDiv(fw, Max(PX, st.scale)) * CeilDiv(fh, Max(PX, st.scale))

\* the callback of the GrainCanvas in unnamed/part_001: the same steps with
\* no clumping map (randomness is never read) and every draw Math.random()
RenderLegacy(st, fw, fh, vals) ==
    [Render([st EXCEPT !.randomness = 0], fw, fh, MathRandom(vals)) EXCEPT !.st = st]

----------------------------------------------------------------------------
(* State.                                                                  *)

VARIABLES
    component,   \* the GrainCanvas the App imports: "seeded" (components/
                 \* GrainCanvas.tsx) or "math" (unnamed/part_001)
    settings,    \* App: const [settings, setSettings]
    unit,        \* App: const [unit, setUnit]
    aiPrompt,    \* App: const [aiPrompt, setAiPrompt]
    aiRecipes,   \* App: const [aiRecipes, setAiRecipes]
    loadingAI,   \* App: const [loadingAI, setLoadingAI]
    canvasRef,   \* App: canvasRef.current is set
    requests,    \* calls of fetchGrainRecipes awaiting the service, oldest first:
                 \* the prompt of each, and whether the answer to a later
                 \* call has been stored since (overtaken)
    fetched,     \* how the call of fetchGrainRecipes that just ended ended
    canvas,      \* GrainCanvas: the canvas element: width, height, pixels
    isRendering, \* GrainCanvas: const [isRendering, setIsRendering]
    frames,      \* callbacks requestAnimationFrame holds, oldest first
    renderId,    \* the id the latest run of the effect got for its callback
    last,        \* what the latest run of the callback did
    prev,        \* the pixels the render before it left, if it had the same settings
    dropped,     \* the latest run of the effect cancelled a pending callback
    exported,    \* the file handleDownload or handleCopyImage just produced
    closure      \* one closure createRandom returned, watched call by call

vars == <<component, settings, unit, aiPrompt, aiRecipes, loadingAI, canvasRef,
          requests, fetched, canvas, isRendering, frames, renderId, last, prev,
          dropped, exported, closure>>

appVars == <<unit, aiPrompt, aiRecipes, loadingAI, requests>>

DEFAULT_SETTINGS ==
    [width |-> 1920 * PX, height |-> 1080 * PX, ppi |-> 72, intensity |-> 15,
     scale |-> 10, roughness |-> 0, opacity |-> 100, randomness |-> 0,
     seed |-> 12345, bgColor |-> WHITE, grainColor |-> BLACK,
     texture |-> "UNIFORM", monochrome |-> TRUE]

NoRender == [ran |-> FALSE]

NoClosure == [made |-> 0]

NoPixels == [has |-> FALSE]

NoExport == [kind |-> "none"]

NoFetch == [outcome |-> "none"]

----------------------------------------------------------------------------
(* GrainCanvas: the effect and the animation frame.                        *)

\* the dimension taken as given
finalDimUnclamped(v) == v

\* const finalWidth = Math.min(width, APP_LIMITS.MAX_DIMENSION)
finalDim(v) == Min(v, MAX_DIMENSION * PX)

\* an effect that returns no cleanup
CleanupNothing(fs, id) == fs

\* return () => cancelAnimationFrame(renderId): the callback the previous
\* run of the effect scheduled is dropped if it has not run
Cleanup(fs, id) == SelectSeq(fs, LAMBDA f : f.id # id)

\* the id requestAnimationFrame returns: one no pending callback has
FreshId(fs, id) ==
    CHOOSE i \in 1..(Len(fs) + 2) :
        /\ i # id
        /\ \A k \in 1..Len(fs) : fs[k].id # i
        /\ \A j \in 1..(i - 1) : j = id \/ \E k \in 1..Len(fs) : fs[k].id = j

\* useEffect(..., [settings, onCanvasReady]) for a new settings object st:
\* the cleanup of the previous run, then lines 26-42 up to the scheduling
Effect(st) ==
    LET kept == Cleanup(frames, renderId)
        id   == FreshId(kept, renderId)
    IN  /\ canvas' = [w |-> CanvasDim(finalDim(st.width)),
                      h |-> CanvasDim(finalDim(st.height)),
                      painted |-> FALSE, px |-> <<>>]
        /\ isRendering' = TRUE
        /\ frames' = Append(kept, [id |-> id, st |-> st,
                                   fw |-> finalDim(st.width), fh |-> finalDim(st.height)])
        /\ renderId' = id
        /\ dropped' = (Len(kept) < Len(frames))
        /\ last' = NoRender
        /\ prev' = IF last.ran /\ last.st = st
                   THEN [has |-> TRUE, st |-> last.st, px |-> last.px]
                   ELSE NoPixels

\* the sequences Math.random() may hand out to one render
MathRandomRuns == {<<0, FP - 1>>, <<FP \div 2, FP \div 4>>, <<FP - 1, FP \div 8>>}

\* the browser runs the oldest callback requestAnimationFrame holds
Frame ==
    /\ frames # <<>>
    /\ LET f == Head(frames)
       IN  /\ NoiseCells(f.st, f.fw, f.fh) <= MaxCells
           /\ CanvasDim(f.fw) * CanvasDim(f.fh) <= MaxPixels
           /\ \E r \in (IF component = "math"
                        THEN {RenderLegacy(f.st, f.fw, f.fh, vals) : vals \in MathRandomRuns}
                        ELSE {Render(f.st, f.fw, f.fh, createRandom(f.st.seed))}) :
                /\ last' = r @@ [ran |-> TRUE, stale |-> f.id # renderId]
                /\ canvas' = [canvas EXCEPT !.painted = TRUE, !.px = r.px]
                /\ canvasRef' = (canvasRef \/ ~r.threw)
                /\ isRendering' = (isRendering /\ r.threw)
    /\ frames' = Tail(frames)
    /\ exported' = NoExport
    /\ fetched' = NoFetch
    /\ UNCHANGED <<closure, component, settings, appVars, renderId, prev, dropped>>

\* a new settings object with the same values reaches the GrainCanvas
\* (applyRecipe of a recipe whose settings are the current ones)
Resubmit ==
    /\ Effect(settings)
    /\ exported' = NoExport
    /\ fetched' = NoFetch
    /\ UNCHANGED <<closure, component, settings, appVars, canvasRef>>

----------------------------------------------------------------------------
(* App: the handlers that change the settings record.                      *)

\* Math.round(x / y) for x >= 0, y > 0
RoundDiv(x, y) == (2 * x + y) \div (2 * y)

\* pxToMm: parseFloat(((px * 25.4) / ppi).toFixed(1)), px in tenths of a
\* pixel, the result in tenths of a millimetre
pxToMm(px, ppi) == RoundDiv(px * 254, ppi * PX)

\* mmToPx: Math.round((mm / 25.4) * ppi), mm in tenths of a millimetre,
\* the result in tenths of a pixel
mmToPx(mm, ppi) == RoundDiv(mm * ppi, 254) * PX

\* Math.min(Math.max(APP_LIMITS.MIN_DIMENSION, v), APP_LIMITS.MAX_DIMENSION)
ClampDimension(v) == Min(Max(MIN_DIMENSION * PX, v), MAX_DIMENSION * PX)

\* setSettings(next) followed by the commit: the GrainCanvas gets the new
\* object and its effect runs
Commit(next) ==
    /\ settings' = next
    /\ Effect(next)
    /\ exported' = NoExport
    /\ fetched' = NoFetch
    /\ UNCHANGED <<closure, component, appVars, canvasRef>>

\* what the user types in a dimension field, in tenths
DimInputs == {2 * PX, 25, 6000 * PX}

\* what the user types in the density field
PpiInputs == {0, 1000}

\* what the sliders, buttons and pickers of the engine hand to updateSetting
EngineInputs ==
    {<<"texture", "SPECKLE">>, <<"randomness", 50>>}

PRESETS ==
    {[w |-> 1080 * PX, h |-> 1920 * PX, ppi |-> 0],
     [w |-> 1080 * PX, h |-> 1080 * PX, ppi |-> 0],
     [w |-> 2480 * PX, h |-> 3508 * PX, ppi |-> 300]}

\* updateSetting(key, value)
updateSetting(key, value) ==
    Commit([settings EXCEPT ![key] = IF key \in {"width", "height"}
                                     THEN ClampDimension(value)
                                     ELSE value])

UpdateSetting == \E in \in EngineInputs : updateSetting(in[1], in[2])

\* handleDimensionChange(key, val)
HandleDimensionChange ==
    \E key \in {"width", "height"}, num \in DimInputs :
        IF unit = "PX"
        THEN updateSetting(key, num)
        ELSE updateSetting(key, mmToPx(num, settings.ppi))

\* handlePpiChange(val)
HandlePpiChange ==
    \E newPpi \in PpiInputs :
        /\ newPpi >= 1
        /\ IF unit = "MM"
           THEN Commit([settings EXCEPT
                    !.width  = ClampDimension(mmToPx(pxToMm(settings.width, settings.ppi), newPpi)),
                    !.height = ClampDimension(mmToPx(pxToMm(settings.height, settings.ppi), newPpi)),
                    !.ppi    = newPpi])
           ELSE Commit([settings EXCEPT !.ppi = newPpi])

\* onClick of a preset: width: p.w, height: p.h, ppi: p.ppi || s.ppi
Preset ==
    \E p \in PRESETS :
        Commit([settings EXCEPT !.width = p.w, !.height = p.h,
                                !.ppi = IF p.ppi = 0 THEN settings.ppi ELSE p.ppi])

\* onClick of the reset button: setSettings(DEFAULT_SETTINGS)
Reset == Commit(DEFAULT_SETTINGS)

\* setUnit
SetUnit ==
    /\ \E u \in {"PX", "MM"} : u # unit /\ unit' = u
    /\ exported' = NoExport
    /\ fetched' = NoFetch
    /\ UNCHANGED <<closure, component, settings, aiPrompt, aiRecipes, loadingAI, canvasRef, requests,
                   canvas, isRendering, frames, renderId, last, prev, dropped>>

----------------------------------------------------------------------------
(* App: export.                                                            *)

\* the decimal numeral a template literal prints for a dimension: its
\* integer part and its tenths digit (0 when it prints none)
Numeral(v) == <<v \div PX, v % PX>>

\* what an export reads: the name it builds and the canvas it encodes
Exported(kind) ==
    [kind |-> kind,
     name |-> <<Numeral(settings.width), Numeral(settings.height)>>,
     w |-> canvas.w, h |-> canvas.h, painted |-> canvas.painted, px |-> canvas.px]

\* handleDownload
HandleDownload ==
    /\ canvasRef
    /\ exported' = Exported("download")
    /\ fetched' = NoFetch
    /\ UNCHANGED <<closure, component, settings, appVars, canvasRef, canvas, isRendering, frames,
                   renderId, last, prev, dropped>>

\* handleCopyImage
HandleCopyImage ==
    /\ canvasRef
    /\ exported' = Exported("copy")
    /\ fetched' = NoFetch
    /\ UNCHANGED <<closure, component, settings, appVars, canvasRef, canvas, isRendering, frames,
                   renderId, last, prev, dropped>>

----------------------------------------------------------------------------
(* The recipe service (unnamed/part_002) and its caller.                   *)

Prompts == {"", " ", "vogue", "brutalist"}

\* aiPrompt.trim()
Trim(p) == IF p = " " THEN "" ELSE p

\* a recipe the service may answer a prompt with
Recipe(p) ==
    [name |-> p,
     settings |-> [intensity |-> 100, scale |-> 20, roughness |-> 0, opacity |-> 100,
                   randomness |-> 50, seed |-> 1, bgColor |-> BLACK, grainColor |-> WHITE,
                   texture |-> "FILM", monochrome |-> TRUE]]

\* a recipe whose settings hold some of the fields only: JSON.parse checks
\* no schema
Fragment(p) ==
    [name |-> p, settings |-> [intensity |-> 1, texture |-> "SPECKLE"]]

\* the arrays response.text may hold for a prompt when it parses
Responses(p) == {<<>>, <<Recipe(p)>>, <<Recipe(p), Fragment(p)>>}

\* how a request may end: the text parses, the text does not parse, or
\* generateContent rejects
Outcomes == {"ok", "unparsable", "network"}

\* fetchGrainRecipes(style): how the call ends once the service has
\* answered.  The await of generateContent is outside the try block, so a
\* rejection leaves the function; JSON.parse is inside it
fetchGrainRecipes(outcome, response) ==
    CASE outcome = "network"    -> [outcome |-> outcome, threw |-> TRUE, recipes |-> <<>>]
      [] outcome = "unparsable" -> [outcome |-> outcome, threw |-> FALSE, recipes |-> <<>>]
      [] OTHER                  -> [outcome |-> outcome, threw |-> FALSE, recipes |-> response]

\* onChange of the prompt field
SetAiPrompt ==
    /\ \E p \in Prompts : p # aiPrompt /\ aiPrompt' = p
    /\ exported' = NoExport
    /\ fetched' = NoFetch
    /\ UNCHANGED <<closure, component, settings, unit, aiRecipes, loadingAI, canvasRef, requests,
                   canvas, isRendering, frames, renderId, last, prev, dropped>>

\* handleGenerateAI up to the await
HandleGenerateAI ==
    /\ Trim(aiPrompt) # ""
    /\ Len(requests) < MaxRequests
    /\ loadingAI' = TRUE
    /\ requests' = Append(requests, [prompt |-> aiPrompt, overtaken |-> FALSE])
    /\ exported' = NoExport
    /\ fetched' = NoFetch
    /\ UNCHANGED <<closure, component, settings, unit, aiPrompt, aiRecipes, canvasRef,
                   canvas, isRendering, frames, renderId, last, prev, dropped>>

\* the calls still awaiting the service after call i ended: those made
\* before it are overtaken if its answer was stored
Awaiting(reqs, i, stored) ==
    [j \in 1..(i - 1) |-> [reqs[j] EXCEPT !.overtaken = @ \/ stored]]
    \o SubSeq(reqs, i + 1, Len(reqs))

\* the service answers request i: fetchGrainRecipes ends and handleGenerateAI
\* resumes with setAiRecipes or the catch, then the finally
FetchCompletes ==
    \E i \in 1..Len(requests), outcome \in Outcomes :
        \E response \in (IF outcome = "ok" THEN Responses(requests[i].prompt) ELSE {<<>>}) :
            LET r == fetchGrainRecipes(outcome, response)
            IN  /\ fetched' = r @@ [overtaken |-> requests[i].overtaken]
                /\ aiRecipes' = IF r.threw THEN aiRecipes ELSE r.recipes
                /\ loadingAI' = FALSE
                /\ requests' = Awaiting(requests, i, ~r.threw)
                /\ exported' = NoExport
                /\ UNCHANGED <<closure, component, settings, unit, aiPrompt, canvasRef,
                               canvas, isRendering, frames, renderId, last, prev, dropped>>

\* a merge in which the current settings win
MergeKeepingCurrent(current, fragment) == current @@ fragment

\* { ...prev, ...recipe.settings }
Merge(current, fragment) == fragment @@ current

\* applyRecipe(recipe): setSettings(prev => ({ ...prev, ...recipe.settings }))
ApplyRecipe ==
    \E i \in 1..Len(aiRecipes) : Commit(Merge(settings, aiRecipes[i].settings))

----------------------------------------------------------------------------
(* The renderer alone: every settings record of a bounded family is given  *)
(* to a freshly mounted GrainCanvas.                                       *)

\* every noise parameter, on the small canvases
NoiseFamily ==
    {[DEFAULT_SETTINGS EXCEPT !.width = 2 * PX, !.height = h, !.intensity = i,
                              !.randomness = rd, !.roughness = ro, !.opacity = op,
                              !.seed = sd, !.texture = tx, !.monochrome = mo] :
        h \in {1 * PX, 2 * PX}, i \in {0, 1, 15, 100}, rd \in {0, 5, 50, 100},
        ro \in {0, 50}, op \in {50, 100}, sd \in {1, 12345},
        tx \in GrainTexture, mo \in BOOLEAN}

\* every dimension and scale, for some noise parameters
DimensionFamily ==
    {[DEFAULT_SETTINGS EXCEPT !.width = w, !.height = h, !.scale = sc,
                              !.randomness = rd, !.roughness = ro, !.texture = tx] :
        w \in {0, 1 * PX, 2 * PX, 3 * PX, 6000 * PX, 999999 * PX},
        h \in {1 * PX, 2 * PX, 999999 * PX}, sc \in {0, 10, 15, 20},
        rd \in {0, 50}, ro \in {0, 50}, tx \in {"UNIFORM", "SPECKLE"}}

\* a strip wider than one cell of the clumping map
StripFamily ==
    {[DEFAULT_SETTINGS EXCEPT !.width = 51 * PX, !.height = 1 * PX, !.randomness = rd,
                              !.texture = tx, !.monochrome = mo] :
        rd \in {0, 50}, tx \in {"UNIFORM", "FILM"}, mo \in BOOLEAN}

\* a randomness whose threshold randomness * 0.8 is 1, and one beyond
ThresholdFamily ==
    {[DEFAULT_SETTINGS EXCEPT !.width = 2 * PX, !.height = h, !.intensity = i,
                              !.randomness = rd, !.texture = tx] :
        h \in {1 * PX, 2 * PX}, i \in {15, 100}, rd \in {125, 150},
        tx \in {"UNIFORM", "GAUSSIAN"}}

\* a seed whose first two draws put the GAUSSIAN noise above 1
GaussianTailFamily ==
    {[DEFAULT_SETTINGS EXCEPT !.width = 2 * PX, !.height = 1 * PX, !.intensity = i,
                              !.opacity = op, !.seed = 373, !.texture = "GAUSSIAN"] :
        i \in {15, 100}, op \in {50, 100}}

\* every side of the blur gate
BlurFamily ==
    {[DEFAULT_SETTINGS EXCEPT !.width = 2 * PX, !.height = 2 * PX, !.intensity = 100,
                              !.roughness = ro, !.randomness = rd, !.monochrome = mo] :
        ro \in {0, 1, 2, 50}, rd \in {0, 50}, mo \in BOOLEAN}

\* a colour string with a character that is no hex digit in its red pair
MALFORMED == <<BadDigit, 15, 0, 0, 15, 15>>

\* ... and one with the character second in its red pair ("#FX00FF")
MALFORMED_TAIL == <<15, BadDigit, 0, 0, 15, 15>>

\* every colour, in both colour modes
ColourFamily ==
    {[DEFAULT_SETTINGS EXCEPT !.width = 2 * PX, !.height = 1 * PX, !.intensity = i,
                              !.bgColor = bg, !.grainColor = gc, !.monochrome = mo] :
        i \in {0, 100}, bg \in {WHITE, BLACK, MALFORMED},
        gc \in {WHITE, BLACK, MALFORMED, MALFORMED_TAIL},
        mo \in BOOLEAN}

RenderSettings ==
    NoiseFamily \cup DimensionFamily \cup ColourFamily \cup StripFamily \cup ThresholdFamily
        \cup GaussianTailFamily \cup BlurFamily

\* the state after the first commit of a GrainCanvas mounted with st
Mounted(st, comp) ==
    /\ component = comp
    /\ settings = st
    /\ unit = "PX"
    /\ aiPrompt = ""
    /\ aiRecipes = <<>>
    /\ loadingAI = FALSE
    /\ canvasRef = FALSE
    /\ requests = <<>>
    /\ fetched = NoFetch
    /\ canvas = [w |-> CanvasDim(finalDim(st.width)), h |-> CanvasDim(finalDim(st.height)),
                 painted |-> FALSE, px |-> <<>>]
    /\ isRendering = TRUE
    /\ frames = <<[id |-> 1, st |-> st, fw |-> finalDim(st.width), fh |-> finalDim(st.height)]>>
    /\ renderId = 1
    /\ last = NoRender
    /\ prev = NoPixels
    /\ dropped = FALSE
    /\ exported = NoExport

InitRender == closure = NoClosure /\ \E st \in RenderSettings : Mounted(st, "seeded")

NextRender == Frame \/ Resubmit

SpecRender == InitRender /\ [][NextRender]_vars

\* the same with either GrainCanvas of the repository behind the import
InitBuild ==
    /\ closure = NoClosure
    /\ \E st \in ColourFamily \cup {s \in NoiseFamily : s.seed = 1 /\ s.roughness = 0},
          comp \in {"seeded", "math"} : Mounted(st, comp)

SpecBuild == InitBuild /\ [][NextRender]_vars

----------------------------------------------------------------------------
(* The App with its GrainCanvas: layout, engine, export.                   *)

Init == closure = NoClosure /\ Mounted(DEFAULT_SETTINGS, "seeded")

Next ==
    \/ SetUnit
    \/ HandleDimensionChange
    \/ HandlePpiChange
    \/ UpdateSetting
    \/ Preset
    \/ Reset
    \/ HandleDownload
    \/ HandleCopyImage
    \/ Frame

Spec == Init /\ [][Next]_vars

----------------------------------------------------------------------------
(* The App with the recipe service, on a small canvas.                     *)

InitAI ==
    \E w \in {2 * PX, 25} :
        closure = NoClosure /\ Mounted([DEFAULT_SETTINGS EXCEPT !.width = w, !.height = 2 * PX], "seeded")

NextAI ==
    \/ SetAiPrompt
    \/ HandleGenerateAI
    \/ FetchCompletes
    \/ ApplyRecipe
    \/ Frame

SpecAI == InitAI /\ [][NextAI]_vars

----------------------------------------------------------------------------
(* One closure of createRandom, call by call.                              *)

\* the calls one closure is watched for
MaxCalls == 6

\* the seeds it is created with
StreamSeeds == {0, 1, 42, 12345, 65536, 99999, 1000000007, 2147483647}

\* the calls it took before: none, or two short of the 4917758 calls that
\* take s from a seed below 2^31 to 2^53
CallsBefore == {0, 4917756}

\* the 32-bit Mulberry32: its state advances by the increment modulo 2^32
Mulberry32(a) == MulberryScramble(Add32(a, MulberryStep))

\* the closure of seed after k calls left s, beside a Mulberry32 of the same
\* seed after as many calls
Started(seed, k, s) ==
    [seed |-> seed, calls |-> k, made |-> 0, s |-> s, out |-> <<0, 0>>, v |-> 0,
     mulberry |-> Low32(s), reference |-> <<0, 0>>]

Called(c, m, r) ==
    [c EXCEPT !.calls = @ + 1, !.made = @ + 1, !.s = m.state, !.out = m.out,
              !.v = DrawFP(m.out), !.mulberry = r.state, !.reference = r.out]

\* rng(): one call of the closure, and one of the reference beside it
Call ==
    /\ closure.made < MaxCalls
    /\ closure' = Called(closure, MulberryNext(closure.s), Mulberry32(closure.mulberry))
    /\ UNCHANGED <<component, settings, appVars, canvasRef, fetched, canvas,
                   isRendering, frames, renderId, last, prev, dropped, exported>>

InitStream ==
    /\ \E seed \in StreamSeeds, k \in CallsBefore :
            closure = Started(seed, k, StateAfter(seed, k))
    /\ Mounted(DEFAULT_SETTINGS, "seeded")

NextStream == Call

SpecStream == InitStream /\ [][NextStream]_vars

----------------------------------------------------------------------------
(* Properties.                                                             *)

\* C1  Determinism: two renders of the same settings record leave the same
\* pixels, whichever GrainCanvas renders them.
Determinism ==
    (last.ran /\ prev.has /\ prev.st = last.st) => last.px = prev.px

\* C2  Supersession: at most one callback is pending, it is the one the
\* latest run of the effect scheduled for the current settings, and a
\* callback that ran was not a superseded one.
Supersession ==
    /\ Len(frames) <= 1
    /\ \A i \in 1..Len(frames) : frames[i].id = renderId /\ frames[i].st = settings
    /\ last.ran => (~last.stale /\ last.st = settings)

\* a render ran for settings that had replaced others while theirs was pending
SupersededThenRendered == last.ran /\ dropped /\ frames = <<>>

\* C3  Dimension clamp (upper bound): the canvas, and so the buffer a render
\* leaves, is never larger than 5000 x 5000 nor than 25,000,000 pixels.
DimensionClampUpper ==
    /\ canvas.w <= MAX_DIMENSION
    /\ canvas.h <= MAX_DIMENSION
    /\ canvas.w * canvas.h <= SAFE_PIXELS
    /\ \A i \in 1..Len(frames) :
          frames[i].fw <= MAX_DIMENSION * PX /\ frames[i].fh <= MAX_DIMENSION * PX
    /\ canvas.painted => Len(canvas.px) = canvas.w * canvas.h

\* a canvas sized for a request of 999999 x 999999
OversizeRequestClamped ==
    /\ settings.width = 999999 * PX
    /\ settings.height = 999999 * PX
    /\ canvas.w = MAX_DIMENSION
    /\ canvas.h = MAX_DIMENSION

\* C4  Dimension clamp (lower bound): a render computes the canvas and the
\* noise resolution from the dimensions clamped to [1, 5000].
DimensionClampLower ==
    last.ran =>
        /\ canvas.w = CanvasDim(ClampDimension(last.st.width))
        /\ canvas.h = CanvasDim(ClampDimension(last.st.height))
        /\ last.noiseW = CeilDiv(ClampDimension(last.st.width), Max(PX, last.st.scale))
        /\ last.noiseH = CeilDiv(ClampDimension(last.st.height), Max(PX, last.st.scale))

\* C5  Recipe failure containment: a call of fetchGrainRecipes whose request
\* failed returns the empty list and throws nothing.
RecipeFailureContained ==
    fetched.outcome \in {"network", "unparsable"} =>
        (~fetched.threw /\ fetched.recipes = <<>>)

\* C6  Export filename: the name handleDownload builds carries the width and
\* height of the canvas it encodes.
ExportNameIsCanvasSize ==
    exported.kind = "download" =>
        exported.name = <<Numeral(exported.w * PX), Numeral(exported.h * PX)>>

\* C7  Below-threshold no-op: a render with randomness <= 0.05 builds no
\* map, takes its first noise sample from the first draw of the stream and
\* leaves the pixels the same settings with randomness 0 leave.
BelowThresholdNoOp ==
    (last.ran /\ last.st.randomness <= 5) =>
        /\ last.maskDraws = 0
        /\ last.clutter = <<>>
        /\ \A k \in 1..Len(last.cells) : last.cells[k].m < 0
        /\ Len(last.cells) > 0 => last.cells[1].first = 1
        /\ last.px = Render([last.st EXCEPT !.randomness = 0],
                            finalDim(last.st.width), finalDim(last.st.height),
                            createRandom(last.st.seed)).px

\* a render at the threshold itself
BelowThresholdRendered ==
    /\ last.ran
    /\ last.st.randomness = 5
    /\ Len(last.cells) > 1
    /\ \E k \in 1..Len(last.cells) : last.cells[k].alpha > 0

\* the alpha byte a cell would store for its effect before the mask
UnmaskedAlpha(c) == AlphaByte(c.pre)

\* the cells of the latest render the mask was applied to
MaskedCells ==
    IF last.ran /\ last.st.randomness \in 0..100
    THEN {k \in 1..Len(last.cells) : last.cells[k].m >= 0}
    ELSE {}

ZeroIntensity ==
    (last.ran /\ last.st.intensity = 0) =>
        /\ \A k \in 1..Len(last.cells) : last.cells[k].alpha = 0
        /\ \A i \in 1..Len(last.px) : last.px[i] = FillRGB(last.st.bgColor)

\* a clumped, blurred, coloured render at intensity 0
ZeroIntensityRendered ==
    /\ last.ran
    /\ last.st.intensity = 0
    /\ last.blurred
    /\ ~last.st.monochrome
    /\ Len(last.px) > 1
    /\ \E k \in 1..Len(last.cells) : last.cells[k].noise > 0 /\ last.cells[k].m >= 0

\* the colour the composite gives a pixel drawn from noise cell k
CellColour(k) ==
    [j \in 1..3 |-> Blend(FillRGB(last.st.bgColor)[j], last.cells[k].rgb[j],
                           last.cells[k].alpha, last.st.opacity)]

\* the noise resolution is ceil(width / s) x ceil(height / s)
NoiseResolution ==
    /\ last.noiseW = CeilDiv(finalDim(last.st.width), last.st.scale)
    /\ last.noiseH = CeilDiv(finalDim(last.st.height), last.st.scale)

\* every output pixel (x, y) has the colour of noise cell (x / s, y / s)
BlocksShareSample ==
    \A i \in 1..Len(last.px) :
        last.px[i] = CellColour((((((i - 1) \div canvas.w) * PX) \div last.st.scale) * last.noiseW)
                                + ((((i - 1) % canvas.w) * PX) \div last.st.scale) + 1)

\* C10 as stated: for every width, height and scale s in [1, 20] the noise
\* resolution is ceil(width / s) x ceil(height / s) and the pixels of each
\* s x s block of the output share one noise sample.
GrainCellSize ==
    (last.ran /\ ~last.threw /\ ~last.blurred /\ last.st.scale \in (1 * PX)..(20 * PX)) =>
        (NoiseResolution /\ BlocksShareSample)

\* C10  Grain cell size, amended: the noise resolution is as stated for
\* every scale in [1, 20]; the blocks are s x s when s is a whole number of
\* pixels that divides the width and the height.
GrainCellSizeDivisible ==
    (last.ran /\ ~last.threw /\ ~last.blurred /\ last.st.scale \in (1 * PX)..(20 * PX)) =>
        /\ NoiseResolution
        /\ (/\ last.st.scale % PX = 0
            /\ finalDim(last.st.width) % last.st.scale = 0
            /\ finalDim(last.st.height) % last.st.scale = 0) => BlocksShareSample

\* a 2 x 2 canvas rendered from one noise cell of scale 2
OneCellBlock ==
    /\ last.ran
    /\ ~last.blurred
    /\ last.st.scale = 2 * PX
    /\ canvas.w = 2
    /\ canvas.h = 2
    /\ Len(last.cells) = 1
    /\ last.cells[1].alpha > 0

\* C11  Out-of-range numeric input is clamped: the dimensions, the density
\* and the grain scale the settings record holds are within their limits
\* whatever was typed.
NumericInputClamped ==
    /\ settings.width \in (MIN_DIMENSION * PX)..(MAX_DIMENSION * PX)
    /\ settings.height \in (MIN_DIMENSION * PX)..(MAX_DIMENSION * PX)
    /\ settings.scale \in (1 * PX)..(MAX_SCALE * PX)
    /\ settings.ppi \in 1..MAX_PPI

\* channel j of a colour string read as the spec reads it: its two hex
\* digits, or 0 when the pair is not two hex digits
ChannelOrZero(color, j) ==
    IF color[2 * j - 1] # BadDigit /\ color[2 * j] # BadDigit
    THEN 16 * color[2 * j - 1] + color[2 * j]
    ELSE 0

\* C12  Malformed hex colours: a monochrome render gives every cell the
\* channels of grainColor, 0 for each channel that is not two hex digits,
\* and runs to completion.
MalformedChannelsZero ==
    (last.ran /\ last.st.monochrome /\ last.st.width >= PX /\ last.st.height >= PX) =>
        /\ ~last.threw
        /\ last.steps[Len(last.steps)] = "notify"
        /\ \A k \in 1..Len(last.cells) : \A j \in 1..3 :
              last.cells[k].rgb[j] = ChannelOrZero(last.st.grainColor, j)

\* the fields the recipe service is asked for
RecipeFields ==
    {"intensity", "scale", "roughness", "opacity", "randomness", "seed",
     "bgColor", "grainColor", "texture", "monochrome"}

\* C13  Recipe merge: a step of applyRecipe leaves a settings record with
\* the same fields, those of recipe.settings taken from the recipe and
\* every other one unchanged; width, height and ppi are unchanged when the
\* recipe holds none of them.
RecipeMerge ==
    [][(ApplyRecipe \/ settings' # settings) =>
          \E i \in 1..Len(aiRecipes) :
              /\ DOMAIN settings' = DOMAIN settings
              /\ \A f \in DOMAIN settings :
                    settings'[f] = IF f \in DOMAIN aiRecipes[i].settings
                                   THEN aiRecipes[i].settings[f]
                                   ELSE settings[f]
              /\ DOMAIN aiRecipes[i].settings \subseteq RecipeFields =>
                    /\ settings'.width = settings.width
                    /\ settings'.height = settings.height
                    /\ settings'.ppi = settings.ppi]_vars

\* the settings after a recipe of two fields was applied over the defaults
FragmentApplied ==
    /\ settings.intensity = 1
    /\ settings.texture = "SPECKLE"
    /\ settings.seed = DEFAULT_SETTINGS.seed
    /\ settings.width = 25
    /\ \E i \in 1..Len(aiRecipes) : DOMAIN aiRecipes[i].settings = {"intensity", "texture"}

\* C14  PRNG state width: after any number of calls from an int32 seed the
\* closure has returned what the 32-bit Mulberry32, whose state advances by
\* 0x6D2B79F5 modulo 2^32, returns after as many calls from that seed.
MulberryReference == closure.made > 0 => closure.out = closure.reference

\* C15  PRNG output range: every call returns v with 0 <= v < 1: the output
\* is an integer of [0, 2^32) and the float it gives one of [0, 1).
OutputRange ==
    closure.made > 0 =>
        /\ closure.out[1] \in 0..(HALF - 1)
        /\ closure.out[2] \in 0..(HALF - 1)
        /\ closure.v \in 0..(FP - 1)

\* a call whose t ^ (t >>> 14) is a negative int32
OutputUpperHalf == closure.made > 0 /\ closure.out[1] >= HALF \div 2

\* the draws the clumping map of a render takes: cW * cH with
\* cW = ceil(noiseW / 50) + 2 and cH = ceil(noiseH / 50) + 2 when
\* randomness > 0.05, none otherwise
MaskDrawCount(r) ==
    IF r.st.randomness > 5
    THEN (CeilDiv(r.noiseW, 50) + 2) * (CeilDiv(r.noiseH, 50) + 2)
    ELSE 0

\* C16  Draw order: the clumping map, when randomness > 0.05, takes exactly
\* cW * cH draws before any noise cell, so the first noise sample is draw
\* cW * cH + 1 with the map and draw 1 without it.
DrawOrder ==
    (last.ran /\ ~last.threw) =>
        /\ last.maskDraws = MaskDrawCount(last)
        /\ last.cells[1].first = MaskDrawCount(last) + 1

\* a render whose map is four cells by three
StripMasked ==
    /\ last.ran
    /\ ~last.threw
    /\ last.noiseW = 51
    /\ last.st.randomness = 50
    /\ last.cells[1].first = 13

\* the draws the switch takes for one cell, by texture
TextureDraws(texture) ==
    CASE texture = "UNIFORM" -> {1}
      [] texture = "GAUSSIAN" -> {2}
      [] texture = "FILM" -> {3}
      [] texture = "SPECKLE" -> {1, 2}

\* the byte the n-th draw of the stream of a seed gives a colour channel
StreamByte(seed, n) == ToUint8Clamp(Streams[seed][n].v * 255, FP)

\* cell c of a render of st takes its texture draws, then its colour draws
CellDraws(st, c) ==
    /\ c.tdraws \in TextureDraws(st.texture)
    /\ st.texture = "UNIFORM" => c.noise = Streams[st.seed][c.first].v
    /\ st.monochrome => c.cdraws = 0 /\ c.rgb = GrainRGB(st.grainColor)
    /\ ~st.monochrome =>
           /\ c.cdraws = 3
           /\ \A j \in 1..3 : c.rgb[j] = StreamByte(st.seed, c.first + c.tdraws + j - 1)

\* C17  Per-cell draw sequence: a cell takes its texture draws first (UNIFORM
\* 1, GAUSSIAN 2, FILM 3, SPECKLE 1 or 2), then, only when monochrome is
\* false, exactly three colour draws in the order R, G, B; a monochrome cell
\* takes its colour from grainColor and no colour draw; the next cell starts
\* at the draw after.
CellDrawSequence ==
    (last.ran /\ ~last.threw) =>
        /\ \A k \in 1..Len(last.cells) : CellDraws(last.st, last.cells[k])
        /\ \A k \in 1..(Len(last.cells) - 1) :
               last.cells[k + 1].first
                   = last.cells[k].first + last.cells[k].tdraws + last.cells[k].cdraws

\* a FILM render in colour past its first cell
FilmColourCells ==
    /\ last.ran
    /\ ~last.threw
    /\ last.st.texture = "FILM"
    /\ ~last.st.monochrome
    /\ Len(last.cells) >= 2
    /\ last.cells[2].first = last.cells[1].first + 6
    /\ last.cells[1].rgb[1] # last.cells[1].rgb[3]

\* cell c of a SPECKLE render of st: its first draw r1 is compared with
\* 1 - intensity * 0.8, that is r1 * 125 > (125 - intensity) * FP here
SpeckleCell(st, c) ==
    IF Streams[st.seed][c.first].v * 125 > (125 - st.intensity) * FP
    THEN c.tdraws = 2 /\ c.noise = Streams[st.seed][c.first + 1].v
    ELSE c.tdraws = 1 /\ c.noise = FP \div 2

\* C18  SPECKLE rule: a cell whose first draw r1 exceeds 1 - intensity * 0.8
\* takes a second draw as its noise; any other cell has noise exactly 0.5
\* and takes no second draw; at intensity 0 every cell takes exactly one
\* draw and has noise 0.5.
SpeckleRule ==
    (last.ran /\ ~last.threw /\ last.st.texture = "SPECKLE") =>
        \A k \in 1..Len(last.cells) :
            /\ SpeckleCell(last.st, last.cells[k])
            /\ last.st.intensity = 0 =>
                   last.cells[k].tdraws = 1 /\ last.cells[k].noise = FP \div 2

\* a SPECKLE render with a cell of either kind
SpeckleBothKinds ==
    /\ last.ran
    /\ ~last.threw
    /\ last.st.texture = "SPECKLE"
    /\ last.st.intensity > 0
    /\ \E j, k \in 1..Len(last.cells) :
           /\ last.cells[j].tdraws = 1
           /\ last.cells[j].noise = FP \div 2
           /\ last.cells[k].tdraws = 2

\* C19  Division-by-zero guard: when the threshold randomness * 0.8 is 1 or
\* more (randomness >= 1.25) the mask of every cell is 0 and the multiplier
\* 0.2, so the effect stored is a fifth of noise * intensity, and no NaN or
\* Infinity reaches the alpha.
ThresholdGuard ==
    (last.ran /\ ~last.threw /\ last.st.randomness >= 125) =>
        \A k \in 1..Len(last.cells) :
            /\ ~last.cells[k].nan
            /\ last.cells[k].mask = 0
            /\ 5 * last.cells[k].effect \in (last.cells[k].pre - 4)..last.cells[k].pre

\* cell c of a render of st: the noise enters the effect as it was sampled
\* and the only clamp is the one of the byte stored
AlphaClampedLast(st, c) ==
    /\ c.alpha \in 0..255
    /\ c.pre = c.noise * st.intensity
    /\ c.m < 0 => c.effect = c.noise * st.intensity
    /\ c.effect <= 0 => c.alpha = 0
    /\ (~c.nan /\ c.effect >= 100 * FP) => c.alpha = 255
    /\ (~c.nan /\ c.effect \in 0..(100 * FP)) =>
           c.alpha = RoundHalfEven(c.effect * 255, 100 * FP)

\* C20  Alpha byte range: the alpha stored for a cell is a byte of [0, 255];
\* a GAUSSIAN noise outside [0, 1] is multiplied by the intensity and the
\* mask as it is and clamped only when the byte is stored.
AlphaByteRange ==
    (last.ran /\ ~last.threw) =>
        \A k \in 1..Len(last.cells) : AlphaClampedLast(last.st, last.cells[k])

\* a GAUSSIAN cell whose noise is above 1 and whose effect is stored as 255
GaussianTailStored ==
    /\ last.ran
    /\ ~last.threw
    /\ last.st.texture = "GAUSSIAN"
    /\ \E k \in 1..Len(last.cells) :
           /\ last.cells[k].noise > FP
           /\ last.cells[k].effect > 100 * FP
           /\ last.cells[k].alpha = 255

\* the place of a step among the steps a run of the callback took (0 when
\* it was not taken)
StepAt(steps, name) ==
    IF \E i \in 1..Len(steps) : steps[i] = name
    THEN CHOOSE i \in 1..Len(steps) : steps[i] = name
    ELSE 0

\* the output pixels of the latest render as the composite left them
Composited ==
    Composite(last.st, last.cells, last.noiseW, last.noiseH,
              finalDim(last.st.width), finalDim(last.st.height))

\* C21  Blur gate: a render that reaches the composite blurs if and only if
\* roughness > 0.01; the blur, of radius roughness * 10 px, takes the
\* composited pixels and comes after the composite and before the
\* notification; for roughness <= 0.01 the composited pixels are published
\* as they are.
BlurGated ==
    (last.ran /\ ~last.threw) =>
        /\ last.blurred <=> last.st.roughness > 1
        /\ (StepAt(last.steps, "blur") # 0) <=> last.blurred
        /\ last.blurred =>
               /\ StepAt(last.steps, "composite") < StepAt(last.steps, "blur")
               /\ StepAt(last.steps, "blur") < StepAt(last.steps, "notify")
               /\ last.px = Blur(Composited, CanvasDim(finalDim(last.st.width)),
                                 BlurReach(last.st.roughness))
        /\ ~last.blurred => last.px = Composited

\* a render at roughness 0.01 published as composited, its pixels not all alike
GateBoundaryUnblurred ==
    /\ last.ran
    /\ ~last.threw
    /\ last.st.roughness = 1
    /\ last.steps = <<"fill", "noise", "composite", "notify">>
    /\ \E i, j \in 1..Len(last.px) : last.px[i] # last.px[j]

\* the steps of a render in the order the contract gives them
StepOrder == <<"fill", "mask", "noise", "composite", "blur", "notify">>

\* C22  Publish after finish: the steps of every render that runs are taken
\* in the order fill, mask, noise, composite, blur, notify, and
\* onCanvasReady is called exactly once, as the last of them.
PublishAfterFinish ==
    last.ran =>
        /\ \A i \in 1..Len(last.steps) : StepAt(StepOrder, last.steps[i]) # 0
        /\ \A i, j \in 1..Len(last.steps) :
               i < j => StepAt(StepOrder, last.steps[i]) < StepAt(StepOrder, last.steps[j])
        /\ Cardinality({i \in 1..Len(last.steps) : last.steps[i] = "notify"}) = 1
        /\ last.steps[Len(last.steps)] = "notify"

\* C23  Settings dimension invariant: after any sequence of operations of
\* the App settings.width and settings.height are whole numbers of pixels
\* in [1, 5000].
SettingsDimensionsWhole ==
    /\ settings.width % PX = 0
    /\ settings.height % PX = 0
    /\ settings.width \in (MIN_DIMENSION * PX)..(MAX_DIMENSION * PX)
    /\ settings.height \in (MIN_DIMENSION * PX)..(MAX_DIMENSION * PX)

\* C24  Export sees only finished renders: whenever handleDownload or
\* handleCopyImage has read the canvas, no render was pending and the
\* canvas held the completed render of the current settings.
ExportReadsFinished ==
    exported.kind # "none" =>
        /\ frames = <<>>
        /\ exported.painted
        /\ last.ran
        /\ ~last.threw
        /\ last.st = settings
        /\ exported.px = last.px

\* C25  Rendering flag: once the callback of the latest render has run and
\* none is pending, isRendering is false; no path through the callback
\* leaves it true.
RenderingFlagCleared == (last.ran /\ frames = <<>>) => ~isRendering

\* C26  Latest recipe request wins: the recipe list the App holds is never
\* replaced by the answer to a request older than the one whose answer it
\* holds: no answer that sets the list belongs to an overtaken request.
LatestRecipeWins ==
    (fetched.outcome = "ok" /\ fetched.recipes # <<>>) => ~fetched.overtaken

\* C27  Loading flag accuracy: loadingAI is true exactly while at least one
\* recipe request is outstanding.
LoadingFlagAccurate == loadingAI <=> requests # <<>>

====
